---- MODULE Spec2Model ----
(***************************************************************************)
(* The chatbot HTTP service: ConversationsController over the PostgreSQL   *)
(* tables `conversations` and `messages`.  Every `await` of a handler is   *)
(* one step; requests run in slots whose steps interleave.                 *)
(***************************************************************************)
EXTENDS Integers, Sequences, FiniteSets, TLC

\* ------------------------------------------------------------------ bounds
MaxSlots == 2      \* request slots whose steps may interleave
MaxInterleaved == 2 \* requests started in one behaviour of interleaved requests
MaxSequential == 3  \* requests started in one behaviour of one-at-a-time requests
MaxUuid == 2       \* distinct well-formed UUID values

Slots == 1..MaxSlots
Uuids == 1..MaxUuid

\* ------------------------------------------------------------ column values
\* messagesId: number | null.  Serial ids start at 1, NULL is 0.
NULL == 0
\* payload.sessionId absent (schema.string.optional)
NoSessionId == 0
\* a sessionId string that rules.uuid() rejects
NotAUuid == MaxUuid + 1

\* A text is a sequence of pieces: single characters, or a run of characters
\* that starts and ends with a letter or punctuation mark (neither a blank, a
\* digit nor a quote), which trimming and the JSON grammar treat as a whole.
Hi == <<"h", "i">>
N42 == <<"4", "2">>
Blank == <<" ">>
Empty == <<>>

\* botResponseText's initial value, the fallback sentence
FallbackText == <<"Sorry, I could not get a response from the chatbot at this time.">>

Questions == {Hi, Blank}
BotReplies == {Hi, N42}

\* ------------------------------------------------------- validator: trim
RECURSIVE TrimLeft(_)
TrimLeft(s) == IF s # <<>> /\ Head(s) = " " THEN TrimLeft(Tail(s)) ELSE s

RECURSIVE TrimRight(_)
TrimRight(s) ==
  IF s # <<>> /\ s[Len(s)] = " " THEN TrimRight(SubSeq(s, 1, Len(s) - 1)) ELSE s

Trim(s) == TrimRight(TrimLeft(s))

\* Variant: the length rule applied to the text as sent
QuestionValidUntrimmed(q) == Len(q) >= 1

\* question: schema.string({ trim: true }, [rules.minLength(1)])
QuestionValid(q) == Len(Trim(q)) >= 1

\* sessionId: schema.string.optional({ trim: true }, [rules.uuid()])
SessionIdValid(sid) == sid = NoSessionId \/ sid \in Uuids

\* ------------------------------------------- last_messages: a jsonb column
\* The text bound to a jsonb column goes through PostgreSQL's JSON input
\* function: a JSON number, string or literal is accepted, anything else is
\* "invalid input syntax for type json".
Digits == {"0", "1", "2", "3", "4", "5", "6", "7", "8", "9"}
Quote == "\""

IsJsonNumber(t) ==
  /\ Len(t) >= 1
  /\ \A i \in 1..Len(t) : t[i] \in Digits
  /\ (Len(t) > 1 => t[1] # "0")

IsJsonString(t) ==
  /\ Len(t) >= 2
  /\ t[1] = Quote
  /\ t[Len(t)] = Quote
  /\ \A i \in 2..(Len(t) - 1) : t[i] \notin {Quote, "\\"}

IsJsonLiteral(t) ==
  t \in {<<"t","r","u","e">>, <<"f","a","l","s","e">>, <<"n","u","l","l">>}

IsJson(s) ==
  LET t == Trim(s) IN IsJsonNumber(t) \/ IsJsonString(t) \/ IsJsonLiteral(t)

\* The stored jsonb value of an accepted text.
JsonbIn(s) ==
  LET t == Trim(s) IN
  IF IsJsonNumber(t) THEN [kind |-> "number", val |-> t]
  ELSE IF IsJsonString(t) THEN [kind |-> "string", val |-> SubSeq(t, 2, Len(t) - 1)]
  ELSE [kind |-> "literal", val |-> t]

\* The text PostgreSQL gives back for a stored jsonb value
JsonbOut(v) ==
  IF v.kind = "string" THEN <<Quote>> \o v.val \o <<Quote>> ELSE v.val

\* SQL NULL in last_messages
SqlNull == [kind |-> "sqlnull", val |-> <<>>]

\* ------------------------------------------------------------------- state
VARIABLES
  conversations,  \* table conversations: id -> [session_id, messagesId, lastMessages]
  messages,       \* table messages: id -> [senderType, message]
  nextConvId,     \* conversations.id sequence (increments)
  nextMsgId,      \* messages.id sequence
  issued,         \* UUID values that have appeared so far (uuidv4 avoids them)
  req,            \* per slot: the request being handled, its locals and response
  pre,            \* history: the two tables as they were when the request arrived
  started         \* number of requests started

vars == <<conversations, messages, nextConvId, nextMsgId, issued, req, pre, started>>

store == <<conversations, messages, nextConvId, nextMsgId>>

IdleReq ==
  [kind |-> "none", pc |-> "idle", question |-> Empty, sessionId |-> NoSessionId,
   id |-> 0, page |-> 0, limit |-> 0,
   conv |-> NULL, currentSessionId |-> NoSessionId, botResponseText |-> Empty,
   apiFailed |-> FALSE, botMessage |-> NULL, conversationsToUpdate |-> {},
   status |-> 0, respSessionId |-> NoSessionId, respMessage |-> Empty,
   respTotal |-> 0, respData |-> <<>>]

Init ==
  /\ conversations = <<>>
  /\ messages = <<>>
  /\ nextConvId = 1
  /\ nextMsgId = 1
  /\ issued = {}
  /\ req = [r \in Slots |-> IdleReq]
  /\ pre = [conversations |-> <<>>, messages |-> <<>>]
  /\ started = 0

\* ------------------------------------------------------------ table access
Remove(f, k) == [x \in DOMAIN f \ {k} |-> f[x]]
Insert(f, k, v) == [x \in DOMAIN f \cup {k} |-> IF x = k THEN v ELSE f[x]]

\* Conversation.findBy('session_id', sid): the ids of the matching rows
FindBySessionId(convs, sid) == {c \in DOMAIN convs : convs[c].session_id = sid}

\* Variant: the column without its unique constraint
UniqueViolationNever(convs, sid) == FALSE

\* table.uuid('session_id').notNullable().unique(): an INSERT of a session id
\* that a row already holds is rejected
UniqueViolation(convs, sid) == FindBySessionId(convs, sid) # {}

\* messages_id ... references('id').inTable('messages'): an UPDATE that sets a
\* non-null messages_id naming no row of messages is rejected
ForeignKeyViolation(msgs, mid) == mid # NULL /\ mid \notin DOMAIN msgs

\* Variant: the delete leaves the referencing rows as they are
OnDeleteKeep(convs, mid) == convs

\* ... .onDelete('SET NULL'): deleting message mid sets messages_id to NULL in
\* every row that references it (last_messages is not part of the constraint)
OnDeleteSetNull(convs, mid) ==
  [c \in DOMAIN convs |->
     IF convs[c].messagesId = mid THEN [convs[c] EXCEPT !.messagesId = NULL]
     ELSE convs[c]]

\* Message.create({ senderType, message })
MessageRow(sender, text) == [senderType |-> sender, message |-> text]

\* Conversation.create({ session_id })
NewConversationRow(sid) == [session_id |-> sid, messagesId |-> NULL, lastMessages |-> SqlNull]

\* conversation.save() after messagesId / lastMessages were assigned:
\* UPDATE conversations SET messages_id = mid, last_messages = text WHERE id = c
SaveRejected(msgs, convs, c, mid, text) ==
  \/ ~IsJson(text)
  \/ (c \in DOMAIN convs /\ ForeignKeyViolation(msgs, mid))

SavedRow(row, mid, text) ==
  [row EXCEPT !.messagesId = mid, !.lastMessages = JsonbIn(text)]

\* Variant: only the reference is cleared
ClearedReferenceOnly(row) == [row EXCEPT !.messagesId = NULL]

\* conv.messagesId = null; conv.lastMessages = null; conv.save()
ClearedRow(row) == [row EXCEPT !.messagesId = NULL, !.lastMessages = SqlNull]

\* The two tables as a request finds them
Snapshot == [conversations |-> conversations, messages |-> messages]

\* Slot r is the only one that may be busy
Alone(r) == \A o \in Slots \ {r} : req[o].pc = "idle"

\* The behaviour's budget of requests is not used up
MoreToCome(one_at_a_time) ==
  started < (IF one_at_a_time THEN MaxSequential ELSE MaxInterleaved)

\* A request arrives in the lowest free slot (slots are interchangeable).
\* one_at_a_time: requests are handled one after the other, a request arriving
\* only when no other is in progress or waiting for its response to be sent;
\* pre then records the tables the request started from.
Arrive(r, one_at_a_time) ==
  /\ req[r].pc = "idle"
  /\ \A o \in Slots : o < r => req[o].pc # "idle"
  /\ MoreToCome(one_at_a_time)
  /\ one_at_a_time => Alone(r)
  /\ started' = started + 1
  /\ pre' = IF one_at_a_time THEN Snapshot ELSE pre

\* UUID values are opaque and interchangeable: the one that appears next, in a
\* payload or out of uuidv4(), is named by the lowest unused number
Unused == Uuids \ issued
NextUnused == {u \in Unused : \A v \in Unused : u <= v}

\* uuidv4() is modelled as a value that has not appeared before; a request that
\* will need one starts only while the bounded universe still has one for it
FreshLeft ==
  Cardinality(Uuids \ issued) >
    Cardinality({o \in Slots : req[o].pc = "sq_create" /\ req[o].sessionId = NoSessionId})

Respond(rq, code) == [rq EXCEPT !.pc = "done", !.status = code]

\* ------------------------------------------------------------ sendQuestion
\* request.validate: 400 on a bad payload, before any store access
SendQuestionValidate(r, one_at_a_time) ==
  \E q \in Questions, sid \in {NoSessionId, NotAUuid} \cup issued \cup NextUnused :
    /\ sid = NoSessionId => FreshLeft
    /\ Arrive(r, one_at_a_time)
    /\ LET rq == [IdleReq EXCEPT !.kind = "sendQuestion", !.question = q, !.sessionId = sid]
       IN IF QuestionValid(q) /\ SessionIdValid(sid)
          THEN /\ req' = [req EXCEPT ![r] =
                    [rq EXCEPT !.question = Trim(q),
                               !.pc = IF sid # NoSessionId THEN "sq_find" ELSE "sq_create"]]
               /\ issued' = IF sid # NoSessionId THEN issued \cup {sid} ELSE issued
          ELSE /\ req' = [req EXCEPT ![r] = Respond(rq, 400)]
               /\ issued' = issued
    /\ UNCHANGED store

\* conversation = await Conversation.findBy('session_id', payload.sessionId)
SendQuestionFind(r) ==
  /\ req[r].pc = "sq_find"
  /\ LET found == FindBySessionId(conversations, req[r].sessionId) IN
     IF found = {}
     THEN req' = [req EXCEPT ![r].currentSessionId = req[r].sessionId,
                             ![r].pc = "sq_create"]
     ELSE \E c \in found :
            req' = [req EXCEPT ![r].conv = c,
                               ![r].currentSessionId = conversations[c].session_id,
                               ![r].pc = "sq_user"]
  /\ UNCHANGED <<store, issued, pre, started>>

\* currentSessionId = uuidv4() when no sessionId was sent; then
\* conversation = await Conversation.create({ session_id: currentSessionId })
SendQuestionCreate(r) ==
  /\ req[r].pc = "sq_create"
  /\ \E sid \in Uuids :
       /\ IF req[r].sessionId = NoSessionId
          THEN sid \in NextUnused
          ELSE sid = req[r].currentSessionId
       /\ issued' = issued \cup {sid}
       /\ nextConvId' = nextConvId + 1
       /\ IF UniqueViolation(conversations, sid)
          THEN /\ req' = [req EXCEPT ![r] = Respond([req[r] EXCEPT !.currentSessionId = sid], 500)]
               /\ UNCHANGED conversations
          ELSE /\ conversations' = Insert(conversations, nextConvId, NewConversationRow(sid))
               /\ req' = [req EXCEPT ![r].conv = nextConvId,
                                     ![r].currentSessionId = sid,
                                     ![r].pc = "sq_user"]
  /\ UNCHANGED <<messages, nextMsgId, pre, started>>

\* await Message.create({ senderType: 'user', message: userQuestion })
SendQuestionUserMessage(r) ==
  /\ req[r].pc = "sq_user"
  /\ messages' = Insert(messages, nextMsgId, MessageRow("user", req[r].question))
  /\ nextMsgId' = nextMsgId + 1
  /\ req' = [req EXCEPT ![r].pc = "sq_axios"]
  /\ UNCHANGED <<conversations, nextConvId, issued, pre, started>>

\* The outcomes of axios.post: a thrown error, or response data whose message
\* field is a text (Empty: the field is missing or empty).
ApiOutcomes ==
  {[kind |-> "error", message |-> Empty]} \cup
  {[kind |-> "data", message |-> m] : m \in BotReplies \cup {Empty}}

\* botResponseText after the inner try/catch
BotResponseText(outcome) ==
  IF outcome.kind = "data" /\ outcome.message # Empty
  THEN outcome.message
  ELSE FallbackText

\* await axios.post(...), which touches neither table, and then
\* const botMessage = await Message.create({ senderType: 'bot', message: botResponseText })
SendQuestionBotMessage(r) ==
  /\ req[r].pc = "sq_axios"
  /\ \E outcome \in ApiOutcomes :
       /\ messages' = Insert(messages, nextMsgId, MessageRow("bot", BotResponseText(outcome)))
       /\ req' = [req EXCEPT ![r].botResponseText = BotResponseText(outcome),
                             ![r].apiFailed = (outcome.kind = "error" \/ outcome.message = Empty),
                             ![r].botMessage = nextMsgId,
                             ![r].pc = "sq_save"]
  /\ nextMsgId' = nextMsgId + 1
  /\ UNCHANGED <<conversations, nextConvId, issued, pre, started>>

\* conversation.messagesId = botMessage.id; conversation.lastMessages =
\* botMessage.message; await conversation.save(); response.ok(...).
\* A rejected UPDATE reaches the outer catch: 500.
SendQuestionSave(r) ==
  /\ req[r].pc = "sq_save"
  /\ LET c == req[r].conv
         mid == req[r].botMessage
         text == req[r].botResponseText
     IN IF SaveRejected(messages, conversations, c, mid, text)
        THEN /\ req' = [req EXCEPT ![r] = Respond(req[r], 500)]
             /\ UNCHANGED conversations
        ELSE /\ conversations' =
                  IF c \in DOMAIN conversations
                  THEN [conversations EXCEPT ![c] = SavedRow(conversations[c], mid, text)]
                  ELSE conversations
             /\ req' = [req EXCEPT ![r] =
                  [Respond(req[r], 200) EXCEPT !.respSessionId = req[r].currentSessionId,
                                               !.respMessage = text]]
  /\ UNCHANGED <<messages, nextConvId, nextMsgId, issued, pre, started>>

\* ------------------------------------------------------ deleteConversation
\* Variant: a DELETE that has lost its WHERE clause
ConversationDeleteAll(convs, c) == <<>>

\* conversation.delete(): DELETE FROM conversations WHERE id = c.  Nothing
\* references conversations, so no other row of either table is touched.
ConversationDelete(convs, c) == Remove(convs, c)

\* const conversation = await Conversation.find(params.id)
DeleteConversationFind(r, one_at_a_time) ==
  \E id \in 1..nextConvId :
    /\ Arrive(r, one_at_a_time)
    /\ LET rq == [IdleReq EXCEPT !.kind = "deleteConversation", !.id = id] IN
       req' = [req EXCEPT ![r] =
                 IF id \in DOMAIN conversations
                 THEN [rq EXCEPT !.conv = id, !.pc = "dc_delete"]
                 ELSE Respond(rq, 404)]
    /\ UNCHANGED <<store, issued>>

\* await conversation.delete(); response.noContent()
DeleteConversationDelete(r) ==
  /\ req[r].pc = "dc_delete"
  /\ conversations' = ConversationDelete(conversations, req[r].conv)
  /\ req' = [req EXCEPT ![r] = Respond(req[r], 204)]
  /\ UNCHANGED <<messages, nextConvId, nextMsgId, issued, pre, started>>

\* ----------------------------------------------------------- deleteMessage
\* Conversation.query().where('messages_id', message.id)
ReferencingConversations(convs, mid) == {c \in DOMAIN convs : convs[c].messagesId = mid}

\* message.delete(): DELETE FROM messages WHERE id = mid, with the foreign
\* key's ON DELETE SET NULL applied to conversations
MessageDelete(convs, mid) == OnDeleteSetNull(convs, mid)

\* const message = await Message.find(params.id)
DeleteMessageFind(r, one_at_a_time) ==
  \E id \in 1..nextMsgId :
    /\ Arrive(r, one_at_a_time)
    /\ LET rq == [IdleReq EXCEPT !.kind = "deleteMessage", !.id = id] IN
       req' = [req EXCEPT ![r] =
                 IF id \in DOMAIN messages
                 THEN [rq EXCEPT !.pc = "dm_scan"]
                 ELSE Respond(rq, 404)]
    /\ UNCHANGED <<store, issued>>

\* const conversationsToUpdate = await Conversation.query().where(...)
DeleteMessageScan(r) ==
  /\ req[r].pc = "dm_scan"
  /\ req' = [req EXCEPT
       ![r].conversationsToUpdate = ReferencingConversations(conversations, req[r].id),
       ![r].pc = "dm_clear"]
  /\ UNCHANGED <<store, issued, pre, started>>

\* one iteration of the for loop: conv.messagesId = null;
\* conv.lastMessages = null; await conv.save()  (an UPDATE by id: a row
\* deleted meanwhile is not brought back)
DeleteMessageClear(r) ==
  /\ req[r].pc = "dm_clear"
  /\ req[r].conversationsToUpdate # {}
  /\ \E c \in req[r].conversationsToUpdate :
       /\ conversations' =
            IF c \in DOMAIN conversations
            THEN [conversations EXCEPT ![c] = ClearedRow(conversations[c])]
            ELSE conversations
       /\ req' = [req EXCEPT ![r].conversationsToUpdate = @ \ {c}]
  /\ UNCHANGED <<messages, nextConvId, nextMsgId, issued, pre, started>>

\* await message.delete(); response.noContent()
DeleteMessageDelete(r) ==
  /\ req[r].pc = "dm_clear"
  /\ req[r].conversationsToUpdate = {}
  /\ messages' = Remove(messages, req[r].id)
  /\ conversations' = MessageDelete(conversations, req[r].id)
  /\ req' = [req EXCEPT ![r] = Respond(req[r], 204)]
  /\ UNCHANGED <<nextConvId, nextMsgId, issued, pre, started>>

\* ------------------------------------------------- the lastMessage relation
\* The properties Conversation declares with @column
ConversationColumns ==
  {"id", "session_id", "messagesId", "lastMessages", "createdAt", "updatedAt"}

\* @belongsTo(() => Message, { foreignKey: 'messages_id' })
LastMessageForeignKey == "messages_id"

\* preload('lastMessage') boots the relation, which looks the foreign key up
\* among the model's column properties and throws when it is not one of them
PreloadThrows == LastMessageForeignKey \notin ConversationColumns

\* conversation.serialize() with the preloaded lastMessage (a one-element
\* sequence, or the empty sequence for null)
Serialize(convs, msgs, c) ==
  [id |-> c,
   session_id |-> convs[c].session_id,
   messagesId |-> convs[c].messagesId,
   lastMessages |-> convs[c].lastMessages,
   lastMessage |-> IF convs[c].messagesId \in DOMAIN msgs
                   THEN <<msgs[convs[c].messagesId]>>
                   ELSE <<>>]

\* -------------------------------------------------------- getAllConversations
\* (page, limit) pairs of the query string
PageRequests == {<<1, 1>>, <<2, 1>>, <<999, 10>>}

\* The orders in which a SELECT without ORDER BY may return the rows
Orderings(S) ==
  {o \in [1..Cardinality(S) -> S] : \A i, j \in 1..Cardinality(S) : o[i] = o[j] => i = j}

\* query.paginate(page, limit): total counts the matching rows, data is the
\* slice OFFSET (page - 1) * limit LIMIT limit of them
PageOf(rows, page, limit) ==
  LET from == (page - 1) * limit + 1
      to == IF page * limit < Len(rows) THEN page * limit ELSE Len(rows)
  IN IF from > to THEN <<>> ELSE SubSeq(rows, from, to)

GetAllConversations(r, one_at_a_time) ==
  \E sid \in {NoSessionId} \cup issued \cup NextUnused, pl \in PageRequests :
    /\ Arrive(r, one_at_a_time)
    /\ LET rq == [IdleReq EXCEPT !.kind = "getAllConversations", !.sessionId = sid,
                                 !.page = pl[1], !.limit = pl[2]]
           matching == IF sid # NoSessionId
                       THEN FindBySessionId(conversations, sid)
                       ELSE DOMAIN conversations
       IN IF PreloadThrows
          THEN req' = [req EXCEPT ![r] = Respond(rq, 500)]
          ELSE \E o \in Orderings(matching) :
                 req' = [req EXCEPT ![r] =
                   [Respond(rq, 200) EXCEPT
                      !.respTotal = Cardinality(matching),
                      !.respData = PageOf([i \in DOMAIN o |->
                                             Serialize(conversations, messages, o[i])],
                                          pl[1], pl[2])]]
    /\ UNCHANGED <<store, issued>>

\* ------------------------------------------- GET /conversation/:id_or_uuid
\* The public methods of ConversationsController
ControllerMethods ==
  {"sendQuestion", "getAllConversations", "getConversationMessages",
   "deleteConversation", "deleteMessage"}

\* Route.get('/conversation/:id_or_uuid', 'ConversationsController.getConversationById')
GetConversationHandler == "getConversationById"
GetConversationParam == "id_or_uuid"

\* getConversationMessages reads params.id; matches of the given value by
\* session id (when it has the UUID format) or by primary id
ConversationMatches(convs, isUuid, val) ==
  IF isUuid THEN FindBySessionId(convs, val) ELSE {c \in DOMAIN convs : c = val}

GetConversation(r, one_at_a_time) ==
  \E isUuid \in BOOLEAN :
    \E val \in (IF isUuid THEN issued \cup NextUnused ELSE 1..nextConvId) :
      /\ Arrive(r, one_at_a_time)
      /\ LET rq == [IdleReq EXCEPT !.kind = "getConversation", !.id = val,
                                   !.sessionId = IF isUuid THEN val ELSE NoSessionId]
             found == ConversationMatches(conversations, isUuid, val)
         IN IF \/ GetConversationHandler \notin ControllerMethods
               \/ PreloadThrows
               \/ GetConversationParam # "id"
            THEN req' = [req EXCEPT ![r] = Respond(rq, 500)]
            ELSE IF found = {}
            THEN req' = [req EXCEPT ![r] = Respond(rq, 404)]
            ELSE \E c \in found :
                   req' = [req EXCEPT ![r] =
                     [Respond(rq, 200) EXCEPT
                        !.respData = <<Serialize(conversations, messages, c)>>]]
      /\ UNCHANGED <<store, issued>>

\* ------------------------------------------------------------ the system
\* The response has been sent: the slot is free for the next request
Finish(r, one_at_a_time) ==
  /\ req[r].pc = "done"
  /\ MoreToCome(one_at_a_time)
  /\ req' = [req EXCEPT ![r] = IdleReq]
  /\ UNCHANGED <<store, issued, pre, started>>

Step(r, one_at_a_time) ==
  \/ SendQuestionValidate(r, one_at_a_time)
  \/ SendQuestionFind(r)
  \/ SendQuestionCreate(r)
  \/ SendQuestionUserMessage(r)
  \/ SendQuestionBotMessage(r)
  \/ SendQuestionSave(r)
  \/ GetAllConversations(r, one_at_a_time)
  \/ GetConversation(r, one_at_a_time)
  \/ DeleteConversationFind(r, one_at_a_time)
  \/ DeleteConversationDelete(r)
  \/ DeleteMessageFind(r, one_at_a_time)
  \/ DeleteMessageScan(r)
  \/ DeleteMessageClear(r)
  \/ DeleteMessageDelete(r)
  \/ Finish(r, one_at_a_time)

\* Requests whose steps interleave freely
Next == \E r \in Slots : Step(r, FALSE)

Spec == Init /\ [][Next]_vars

\* Requests handled one at a time
SeqNext == \E r \in Slots : Step(r, TRUE)

SeqSpec == Init /\ [][SeqNext]_vars

\* ===================================================================
\* Properties
\* ===================================================================
Done(r, kind) == req[r].kind = kind /\ req[r].pc = "done"

NewMessages == DOMAIN messages \ DOMAIN pre.messages
NewConversations == DOMAIN conversations \ DOMAIN pre.conversations

\* The cached text of row c is the text t
CachedTextIs(c, t) ==
  /\ conversations[c].lastMessages # SqlNull
  /\ JsonbOut(conversations[c].lastMessages) = t

\* C1: in every state reachable by interleaved sendQuestion, deleteMessage and
\* deleteConversation steps, a non-null messages_id of a Conversation names a
\* Message that exists.
C1_LastMessageExists ==
  \A c \in DOMAIN conversations :
    conversations[c].messagesId # NULL => conversations[c].messagesId \in DOMAIN messages

\* A deleteMessage has answered 204 while a sendQuestion was in progress or
\* done, and a Conversation holds a reference.
C1_Witness ==
  /\ \E r \in Slots : Done(r, "deleteMessage") /\ req[r].status = 204
  /\ \E r \in Slots : req[r].kind = "sendQuestion"
  /\ \E c \in DOMAIN conversations : conversations[c].messagesId # NULL

\* C2: when deleteMessage answers 204 for a Message that was the last-message
\* reference of one or more Conversations, the Message is gone, each of those
\* Conversations still exists and has messagesId and lastMessages null.
C2_DeleteMessageClears ==
  \A r \in Slots :
    LET R == ReferencingConversations(pre.conversations, req[r].id) IN
    (Done(r, "deleteMessage") /\ req[r].status = 204 /\ R # {}) =>
      /\ req[r].id \notin DOMAIN messages
      /\ \A c \in R :
           /\ c \in DOMAIN conversations
           /\ conversations[c].messagesId = NULL
           /\ conversations[c].lastMessages = SqlNull

C2_Witness ==
  \E r \in Slots :
    /\ Done(r, "deleteMessage")
    /\ req[r].status = 204
    /\ ReferencingConversations(pre.conversations, req[r].id) # {}

\* C7: when deleteConversation answers 204, exactly that Conversation row is
\* removed: the Message rows are unchanged and every other Conversation row
\* keeps all of its fields.
C7_DeleteConversationFrame ==
  \A r \in Slots :
    (Done(r, "deleteConversation") /\ req[r].status = 204) =>
      /\ messages = pre.messages
      /\ conversations = Remove(pre.conversations, req[r].id)

\* The deleted Conversation referenced a Message that is still stored, and
\* another Conversation was stored beside it.
C7_Witness ==
  \E r \in Slots :
    /\ Done(r, "deleteConversation")
    /\ req[r].status = 204
    /\ pre.conversations[req[r].id].messagesId \in DOMAIN messages
    /\ DOMAIN pre.conversations \ {req[r].id} # {}

\* C8: in every reachable state, also when sendQuestion requests carrying the
\* same unseen sessionId interleave their find and create steps, no two
\* Conversation rows have the same session id, and the session id of an
\* existing row never changes.
C8_SessionIdUniqueImmutable ==
  /\ [](\A c, d \in DOMAIN conversations :
          conversations[c].session_id = conversations[d].session_id => c = d)
  /\ [][\A c \in DOMAIN conversations \cap DOMAIN conversations' :
          conversations'[c].session_id = conversations[c].session_id]_vars

\* Two sendQuestion requests with the same sessionId both found no row; one
\* created the Conversation and the other's create was rejected.
C8_Witness ==
  \E r, o \in Slots :
    /\ r # o
    /\ req[r].kind = "sendQuestion" /\ req[o].kind = "sendQuestion"
    /\ req[r].sessionId # NoSessionId
    /\ req[r].sessionId = req[o].sessionId
    /\ req[r].conv # NULL
    /\ req[o].pc = "done" /\ req[o].status = 500 /\ req[o].conv = NULL

\* C3: for every sendQuestion whose sessionId matches an existing Conversation,
\* the number of Conversation rows is unchanged, the response carries that
\* sessionId, and the row's last-message reference and cached text are
\* overwritten with the id and text of the bot Message this request created.
C3_ExistingSessionOverwritten ==
  \A r \in Slots :
    LET found == FindBySessionId(pre.conversations, req[r].sessionId) IN
    (Done(r, "sendQuestion") /\ req[r].sessionId \in Uuids
       /\ QuestionValid(req[r].question) /\ found # {}) =>
      /\ Cardinality(DOMAIN conversations) = Cardinality(DOMAIN pre.conversations)
      /\ req[r].respSessionId = req[r].sessionId
      /\ \E m \in NewMessages :
           /\ messages[m].senderType = "bot"
           /\ \A c \in found :
                /\ c \in DOMAIN conversations
                /\ conversations[c].messagesId = m
                /\ CachedTextIs(c, messages[m].message)

\* C4: for every valid sendQuestion with a non-empty question and no
\* sessionId, the response contains a fresh session id that no earlier
\* Conversation has, and exactly one Conversation and exactly two Messages
\* (user with the question, then bot with the answer) are newly stored.
C4_NewSessionCreated ==
  \A r \in Slots :
    (Done(r, "sendQuestion") /\ req[r].sessionId = NoSessionId
       /\ QuestionValid(req[r].question)) =>
      /\ req[r].respSessionId \in Uuids
      /\ \A c \in DOMAIN pre.conversations :
           pre.conversations[c].session_id # req[r].respSessionId
      /\ Cardinality(NewConversations) = 1
      /\ \A c \in NewConversations : conversations[c].session_id = req[r].respSessionId
      /\ \E u, b \in NewMessages :
           /\ NewMessages = {u, b}
           /\ u < b
           /\ messages[u] = MessageRow("user", req[r].question)
           /\ messages[b] = MessageRow("bot", req[r].respMessage)

\* C5: for every sendQuestion with a well-formed sessionId that matches no
\* Conversation, a Conversation with exactly that session id is created, the
\* response's sessionId is the supplied id, and the request is not rejected.
C5_UnseenSessionAdopted ==
  \A r \in Slots :
    (Done(r, "sendQuestion") /\ req[r].sessionId \in Uuids
       /\ QuestionValid(req[r].question)
       /\ FindBySessionId(pre.conversations, req[r].sessionId) = {}) =>
      /\ req[r].status = 200
      /\ req[r].respSessionId = req[r].sessionId
      /\ \E c \in NewConversations : conversations[c].session_id = req[r].sessionId

\* C6: for every valid sendQuestion during which the chatbot call fails, the
\* response is 200 with the fallback text, a bot Message with the fallback
\* text is stored, and the Conversation's last-message reference and cached
\* text point at that Message.
C6_FallbackAnswered ==
  \A r \in Slots :
    (Done(r, "sendQuestion") /\ req[r].apiFailed) =>
      /\ req[r].status = 200
      /\ req[r].respMessage = FallbackText
      /\ \E m \in NewMessages :
           /\ messages[m] = MessageRow("bot", FallbackText)
           /\ req[r].conv \in DOMAIN conversations
           /\ conversations[req[r].conv].messagesId = m
           /\ CachedTextIs(req[r].conv, FallbackText)

\* C9: GET /conversation/:idOrUuid answers 200 with the serialized
\* Conversation and its resolved last Message when the primary id or the
\* session UUID given matches a Conversation (the same content either way),
\* and 404 exactly when none matches.
C9_GetConversationByIdOrUuid ==
  \A r \in Slots :
    Done(r, "getConversation") =>
      LET isUuid == req[r].sessionId # NoSessionId
          found == ConversationMatches(conversations, isUuid, req[r].id)
      IN /\ req[r].status = 404 <=> found = {}
         /\ \A c \in found :
              /\ req[r].status = 200
              /\ req[r].respData = <<Serialize(conversations, messages, c)>>

\* C10: listConversations answers 200 with meta.total the number of
\* Conversations matching the optional sessionId filter; a page beyond the
\* last page has an empty data array, and an in-range page p with limit n
\* holds the rows at positions (p-1)*n+1 .. p*n of the result.
C10_ListPaginated ==
  \A r \in Slots :
    Done(r, "getAllConversations") =>
      LET matching == IF req[r].sessionId # NoSessionId
                      THEN FindBySessionId(conversations, req[r].sessionId)
                      ELSE DOMAIN conversations
          total == Cardinality(matching)
          first == (req[r].page - 1) * req[r].limit + 1
          last == IF req[r].page * req[r].limit < total
                  THEN req[r].page * req[r].limit ELSE total
      IN /\ req[r].status = 200
         /\ req[r].respTotal = total
         /\ first > total => req[r].respData = <<>>
         /\ first <= total =>
              /\ Len(req[r].respData) = last - first + 1
              /\ \E o \in Orderings(matching) :
                   \A i \in 1..Len(req[r].respData) :
                     req[r].respData[i] =
                       Serialize(conversations, messages, o[first + i - 1])

\* C11: a request answered 400 or 404 changes nothing in the store.
\* sendQuestion with a question that is empty after trimming, or with a
\* malformed sessionId, answers 400; deleteConversation and deleteMessage with
\* an id matching no row answer 404; after either answer every Conversation
\* row and every Message row is as it was when the request arrived.
C11_RejectedRequestChangesNothing ==
  \A r \in Slots :
    /\ (Done(r, "sendQuestion")
          /\ (Trim(req[r].question) = Empty \/ req[r].sessionId = NotAUuid))
         => req[r].status = 400
    /\ (Done(r, "deleteConversation") /\ req[r].id \notin DOMAIN pre.conversations)
         => req[r].status = 404
    /\ (Done(r, "deleteMessage") /\ req[r].id \notin DOMAIN pre.messages)
         => req[r].status = 404
    /\ (req[r].pc = "done" /\ req[r].status \in {400, 404})
         => /\ conversations = pre.conversations
            /\ messages = pre.messages

\* A sendQuestion with a blank question was answered 400 while the store
\* held a Conversation with a last-message reference.
C11_Witness ==
  \E r \in Slots :
    /\ Done(r, "sendQuestion")
    /\ Trim(req[r].question) = Empty
    /\ req[r].status = 400
    /\ \E c \in DOMAIN conversations : conversations[c].messagesId # NULL

\* C12: in every reachable state, also when the steps of a deleteMessage
\* interleave with the steps of a sendQuestion, a Conversation's last-message
\* reference is null if and only if its cached text is null, and when both are
\* non-null the cached text is the text of the referenced Message.
C12_ReferenceAndCachedTextAgree ==
  \A c \in DOMAIN conversations :
    /\ conversations[c].messagesId = NULL <=> conversations[c].lastMessages = SqlNull
    /\ (conversations[c].messagesId # NULL /\ conversations[c].lastMessages # SqlNull) =>
         /\ conversations[c].messagesId \in DOMAIN messages
         /\ CachedTextIs(c, messages[conversations[c].messagesId].message)

====
